---- MODULE Spec2Model ----
(***************************************************************************)
(* Model of the findmy location trackers:                                  *)
(*   src/track_location/track_to_mongodb.py          (prog = "tracker")    *)
(*   src/track_location/track_to_mongodb_docker.py   (prog = "docker")     *)
(*   src/track_location/app.py                       (prog = "app")        *)
(* The provider (pyicloud) and the store (MongoDB) are the environment:    *)
(* every call into them either returns one of the answers enumerated below *)
(* or raises.  Python's None is the string "None" (the record None for a    *)
(* dictionary-valued field); a dictionary key that is not there is         *)
(* "absent"; d.get(k) turns "absent" into "None".  The clock is one        *)
(* non-decreasing counter, read by datetime.now() and by the store's       *)
(* $currentDate; a sleep of one interval advances it.                      *)
(* The operator (Ctrl+C), the environment variables, the saved session,    *)
(* the web server that app.run starts and the provider's account are       *)
(* environment too.  app.py has two threads: the main thread (server) and  *)
(* the poll thread (pc); the standalone trackers have one (pc).            *)
(***************************************************************************)
EXTENDS Integers, Sequences, FiniteSets, TLC

VARIABLES
    prog,        \* which script runs: "app", "tracker" or "docker"
    mode,        \* tracker only: "once" (track_once) or "continuous"
    pc,          \* position of the poll loop / poll thread
    exit,        \* "running", or how the process ended: "exit0", "exit1", "crash"
    now,         \* wall clock (datetime.now() and the store's $currentDate read it)
    iteration,   \* track_continuously's iteration counter (iterations started)
    devices,     \* what the provider answered in the current iteration
    locations,   \* the batch built by fetch_device_locations / app's device_info
    collection,  \* the MongoDB collection: records in insertion order
    errAt,       \* step that raised in the current iteration ("" when none)
    ticks,       \* sleeps that have returned
    fetches,     \* calls of fetch_device_locations (app: iterations entered)
    saves,       \* calls of save_to_mongodb (app: insert_one calls)
    listed,      \* per completed iteration: number of devices the provider listed
    allOk,       \* every iteration so far listed, fetched and inserted without error
    API_KEY,     \* app.py: os.getenv('API_KEY'): "unset", "" or the key
    tracking_active, \* app.py: the flag the poll thread tests
    req,         \* app.py: the last HTTP request served
    resp,        \* app.py: its response
    handlerRan,  \* app.py: whether the wrapped handler ran for that request
    nreq,        \* app.py: HTTP requests served
    playSounds,  \* calls of target_device.play_sound()
    alarmsOk,    \* POST /alarm requests that presented the configured key
    MONGODB_URI, \* os.getenv('MONGODB_URI'): "unset" or "set"
    session,     \* the saved session at start-up: "missing", "2fa" or "ok"
    TRACKING_INTERVAL, \* os.getenv('TRACKING_INTERVAL'): "300", "abc" or "-5"
    server,      \* app.py's main thread: "init", "serving", "stopping", "exited"
    threads,     \* app.py: poll threads started
    credential,  \* the provider's view of the session: "valid" or "expired"
    targetListed, \* the account lists a device the filter of app.py selects
    mongo_collection, \* app.py's global: "None" or the collection handle
    target_device, \* app.py's global: "None" or the device selected
    session_file, \* the session file on disk: "absent", "old" or "new"
    login,       \* auth scripts: "" (under way), "ok" or "failed"
    account_closed, \* findmy_auth: account.close() has been called
    selected_device, \* auth scripts: position of the device / method chosen
    stop         \* the stop request: where the loop was, what it did afterwards

vars == <<prog, mode, pc, exit, now, iteration, devices, locations, collection,
          errAt, ticks, fetches, saves, listed, allOk, API_KEY,
          tracking_active, req, resp, handlerRan, nreq, playSounds, alarmsOk,
          MONGODB_URI, session, TRACKING_INTERVAL, server, threads,
          credential, targetListed, stop, mongo_collection, target_device,
          session_file, login, account_closed, selected_device>>

pollVars == <<pc, exit, now, iteration, devices, locations, collection, errAt,
              ticks, fetches, saves, listed, allOk>>
httpVars == <<req, resp, handlerRan, nreq, playSounds, alarmsOk>>
confVars == <<prog, mode, API_KEY, MONGODB_URI, session, TRACKING_INTERVAL>>
envVars == <<tracking_active, server, threads, credential, targetListed,
             mongo_collection, target_device>>
authVars == <<session_file, login, account_closed, selected_device>>

----------------------------------------------------------------------------
(* Bounds of the model *)

MaxIter == 2
MaxDevices == 2
MaxTicks == 3
MaxRequests == 2

(* A record that has no "timestamp" key, and a location without "timeStamp" *)
NoTime == -1

None == [none |-> TRUE]

----------------------------------------------------------------------------
(* The provider's answers.  A device answer is                             *)
(*   [name, status |-> [raises, batteryLevel, batteryStatus],              *)
(*    loc |-> [kind, latitude, longitude, horizontalAccuracy, timeStamp]]  *)
(* kind is "raise" (the lookup raises), "none" (it returns None) or "dict".*)

Status(raises, level, bstatus) ==
    [raises |-> raises, batteryLevel |-> level, batteryStatus |-> bstatus]

Loc(kind, lat, lon, acc, ts) ==
    [kind |-> kind, latitude |-> lat, longitude |-> lon,
     horizontalAccuracy |-> acc, timeStamp |-> ts]

Answer(name, status, loc) == [name |-> name, status |-> status, loc |-> loc]

(* every combination of present and missing optional fields *)
AllStatuses ==
    {Status(TRUE, "absent", "absent")} \cup
    {Status(FALSE, l, b) : l \in {"absent", "None", "0.82"},
                           b \in {"absent", "Charging"}}

AllLocs ==
    {Loc("raise", "absent", "absent", "absent", NoTime),
     Loc("none", "absent", "absent", "absent", NoTime)} \cup
    {Loc("dict", lat, lon, acc, ts) :
        lat \in {"absent", "37.7749"}, lon \in {"absent", "-122.4194"},
        acc \in {"absent", "5.0"}, ts \in {NoTime, 0}}

AllAnswers ==
    {Answer(n, s, l) : n \in {"absent", "Jane's iPhone"},
                       s \in AllStatuses, l \in AllLocs}

(* the answers of the provider in the long runs: a healthy device (whose   *)
(* reported fix is older than the poll), a device whose status call raises *)
(* and a device whose location has no latitude                             *)
OkStatus == Status(FALSE, "0.82", "Charging")
FullLoc == Loc("dict", "37.7749", "-122.4194", "5.0", 0)

LoopAnswers ==
    {Answer("Jane's iPhone", OkStatus, FullLoc),
     Answer("Jane's iPhone", Status(TRUE, "absent", "absent"), FullLoc),
     Answer("Jane's iPhone", OkStatus,
            Loc("dict", "absent", "-122.4194", "5.0", 0))}

----------------------------------------------------------------------------
(* Python helpers *)

(* d.get(k): a missing key reads as None *)
Get(v) == IF v = "absent" THEN "None" ELSE v

(* d.get(k, default) *)
GetDefault(v, default) == IF v = "absent" THEN default ELSE v

(* a variant of LookupLocation without the try/except around the lookup:  *)
(* what the failed lookup left behind is used as the location              *)
LookupLocationUncaught(loc) == IF loc.kind = "none" THEN None ELSE loc

(* try: location = device.location() / except: location = None *)
LookupLocation(loc) == IF loc.kind = "dict" THEN loc ELSE None

(* the value of "location" in device_info *)
GeoPoint(location) ==
    IF location # None
    THEN [type |-> "Point",
          coordinates |-> <<Get(location.longitude), Get(location.latitude)>>]
    ELSE None

(* the value of "location_data" in device_info *)
LocationData(location) ==
    IF location # None
    THEN [latitude |-> Get(location.latitude),
          longitude |-> Get(location.longitude),
          accuracy |-> Get(location.horizontalAccuracy),
          location_timestamp |-> location.timeStamp]
    ELSE None

----------------------------------------------------------------------------
(* The standalone trackers: track_to_mongodb.py, track_to_mongodb_docker.py *)

RECURSIVE SumTo(_, _)
(* dts[1] + ... + dts[i] *)
SumTo(dts, i) == IF i = 0 THEN 0 ELSE dts[i] + SumTo(dts, i - 1)

(* device_info as fetch_device_locations builds it for device number id,   *)
(* read at clock value t; "iter" is bookkeeping of the model: the          *)
(* iteration that built the record                                         *)
DeviceInfo(id, ans, t, it) ==
    [device_id |-> id,
     name |-> GetDefault(ans.name, "Unknown"),
     battery_level |-> Get(ans.status.batteryLevel),
     battery_status |-> Get(ans.status.batteryStatus),
     timestamp |-> t,
     location |-> GeoPoint(LookupLocation(ans.loc)),
     location_data |-> LocationData(LookupLocation(ans.loc)),
     iter |-> it]

(* the list fetch_device_locations returns for the provider's answers devs,*)
(* the clock advancing by dts[i] before device i is stamped: any exception *)
(* inside the device loop (device.status() raising) empties the result     *)
FetchedLocations(devs, dts, t, it) ==
    IF \E i \in DOMAIN devs : devs[i].status.raises
    THEN << >>
    ELSE [i \in DOMAIN devs |-> DeviceInfo(i, devs[i], t + SumTo(dts, i), it)]

(* display_summary raises TypeError on f"{lat:.6f}" / f"{lon:.6f}" when a  *)
(* record has location_data whose latitude or longitude is None            *)
DisplayRaises(locs) ==
    \E i \in DOMAIN locs :
        /\ locs[i].location_data # None
        /\ \/ locs[i].location_data.latitude = "None"
           \/ locs[i].location_data.longitude = "None"

(* the documents as the driver stores them: each gets its _id ("oid")      *)
WithIds(col, docs) ==
    [i \in DOMAIN docs |->
        [f \in DOMAIN docs[i] \cup {"oid"} |->
            IF f = "oid" THEN [ObjectId |-> Len(col) + i] ELSE docs[i][f]]]

(* a variant of InsertMany that writes the batch last document first *)
InsertManyReversed(col, docs) ==
    col \o WithIds(col, [i \in DOMAIN docs |-> docs[Len(docs) + 1 - i]])

(* collection.insert_many(locations) / insert_one(device_info), every      *)
(* document written, in the order given                                    *)
InsertMany(col, docs) == col \o WithIds(col, docs)

(* a variant of AfterSave that goes back to the insert *)
AfterSaveRetry(m) == "save"

(* a variant of AfterSave in which track_once sleeps and loops too *)
AfterSaveAlwaysSleep(m) == "sleep"

(* where the loop goes after save_to_mongodb: track_once returns,          *)
(* track_continuously sleeps                                               *)
AfterSave(m) == IF m = "once" THEN "done" ELSE "sleep"

(* no stop has been requested *)
NoStop == [at |-> "", then |-> << >>]

(* once a stop has been requested, what the loop still does is recorded *)
Logged(event) ==
    stop' = IF stop.at = "" THEN stop
            ELSE [stop EXCEPT !.then = Append(@, event)]

(* int(os.getenv('TRACKING_INTERVAL', 300)) raises ValueError *)
IntRaises(s) == s \notin {"300", "-5"}

(* time.sleep(interval) raises ValueError: the interval is negative *)
SleepRaises(s) == s = "-5"

(* fetch_device_locations(api); in track_continuously preceded by          *)
(* iteration += 1                                                          *)
fetch_device_locations(Answers, maxDevices, Steps) ==
    /\ prog \in {"tracker", "docker"}
    /\ pc = "fetch"
    /\ fetches' = fetches + 1
    /\ iteration' = iteration + 1
    /\ pc' = "display"
    /\ \/ (* api.devices raises *)
          /\ devices' = << >>
          /\ locations' = << >>
          /\ errAt' = "list"
          /\ now' = now
       \/ \E m \in 0..maxDevices :
          \E devs \in [1..m -> Answers], dts \in [1..m -> Steps] :
             /\ credential = "valid"
             /\ devices' = devs
             /\ locations' = FetchedLocations(devs, dts, now, iteration + 1)
             /\ errAt' = IF \E i \in 1..m : devs[i].status.raises
                         THEN "status" ELSE ""
             /\ now' = now + SumTo(dts, m)
    /\ Logged("fetch")
    /\ UNCHANGED <<exit, collection, ticks, saves, listed, allOk>>
    /\ UNCHANGED <<confVars, authVars, httpVars, envVars>>

(* display_summary(locations): not inside any try of track_once; inside    *)
(* track_continuously's try, whose except ends the loop (the docker        *)
(* version then calls sys.exit(1); the other returns to main, which        *)
(* returns 0)                                                              *)
display_summary ==
    /\ prog \in {"tracker", "docker"}
    /\ pc = "display"
    /\ IF DisplayRaises(locations)
       THEN /\ errAt' = "display"
            /\ pc' = "stopped"
            /\ exit' = IF mode = "once" THEN "crash"
                       ELSE IF prog = "docker" THEN "exit1" ELSE "exit0"
            /\ allOk' = FALSE
       ELSE /\ pc' = "save"
            /\ UNCHANGED <<errAt, exit, allOk>>
    /\ UNCHANGED <<now, iteration, devices, locations, collection, ticks,
                   fetches, saves, listed, stop>>
    /\ UNCHANGED <<confVars, authVars, httpVars, envVars>>

(* save_to_mongodb(collection, locations): nothing to save, insert_many    *)
(* succeeds, or insert_many raises after the driver wrote the first k      *)
(* documents (ordered insert); the exception is caught and 0 returned      *)
save_to_mongodb ==
    /\ prog \in {"tracker", "docker"}
    /\ pc = "save"
    /\ saves' = saves + 1
    /\ listed' = Append(listed, Len(devices))
    /\ \/ /\ locations = << >>
          /\ collection' = collection
          /\ allOk' = (allOk /\ errAt = "")
          /\ errAt' = errAt
       \/ /\ locations # << >>
          /\ collection' = InsertMany(collection, locations)
          /\ allOk' = (allOk /\ errAt = "")
          /\ errAt' = errAt
       \/ /\ locations # << >>
          /\ \E k \in 0..(Len(locations) - 1) :
                collection' = InsertMany(collection, SubSeq(locations, 1, k))
          /\ allOk' = FALSE
          /\ errAt' = "insert"
    /\ pc' = AfterSave(mode)
    /\ exit' = IF AfterSave(mode) = "done" THEN "exit0" ELSE exit
    /\ Logged("insert")
    /\ UNCHANGED <<now, iteration, devices, locations, ticks, fetches>>
    /\ UNCHANGED <<confVars, authVars, httpVars, envVars>>

(* time.sleep(interval) returns and the loop starts its next iteration     *)
TrackerSleep(maxIter) ==
    /\ prog \in {"tracker", "docker"}
    /\ pc = "sleep"
    /\ prog = "docker" => ~SleepRaises(TRACKING_INTERVAL)
    /\ iteration < maxIter
    /\ Logged("tick")
    /\ ticks' = ticks + 1
    /\ now' = now + 1
    /\ pc' = "fetch"
    /\ errAt' = ""
    /\ devices' = << >>
    /\ locations' = << >>
    /\ UNCHANGED <<exit, iteration, collection, fetches, saves, listed, allOk>>
    /\ UNCHANGED <<confVars, authVars, httpVars, envVars>>

----------------------------------------------------------------------------
(* app.py: the poll thread, track_location *)

TargetId == 1

(* device_info as track_location builds it: no "timestamp" key *)
AppDeviceInfo(ans, it) == DeviceInfo(TargetId, ans, NoTime, it)

(* the print of the tracked position raises TypeError when latitude or     *)
(* longitude is None (":.6f") or when status has batteryLevel set to None  *)
(* (status.get('batteryLevel', 0) * 100); nothing is formatted when the    *)
(* location is not available                                               *)
PrintRaises(ans) ==
    /\ LookupLocation(ans.loc) # None
    /\ \/ Get(ans.loc.latitude) = "None"
       \/ Get(ans.loc.longitude) = "None"
       \/ GetDefault(ans.status.batteryLevel, "0") = "None"

(* the iteration is over: except (if it raised), then time.sleep; the      *)
(* thread polls one device, target_device                                  *)
EndIteration(err) ==
    /\ pc' = "sleep"
    /\ errAt' = err
    /\ listed' = Append(listed, 1)
    /\ allOk' = (allOk /\ err = "")

(* lines 146-190: read the target device and build device_info *)
track_location_fetch(Answers) ==
    /\ prog = "app"
    /\ pc = "fetch"
    /\ tracking_active
    /\ Logged("fetch")
    /\ fetches' = fetches + 1
    /\ iteration' = iteration + 1
    /\ \/ (* target_device.status() raises *)
          /\ devices' = << >>
          /\ locations' = << >>
          /\ EndIteration("status")
       \/ \E ans \in {a \in Answers : ~a.status.raises} :
             /\ credential = "valid"
             /\ devices' = <<ans>>
             /\ IF PrintRaises(ans)
                THEN /\ locations' = << >>
                     /\ EndIteration("print")
                ELSE /\ locations' = <<AppDeviceInfo(ans, iteration + 1)>>
                     /\ pc' = "insert"
                     /\ UNCHANGED <<errAt, listed, allOk>>
    /\ UNCHANGED <<exit, now, collection, ticks, saves>>
    /\ UNCHANGED <<confVars, authVars, httpVars, envVars>>

(* mongo_collection.insert_one(device_info) *)
track_location_insert ==
    /\ prog = "app"
    /\ pc = "insert"
    /\ Logged("insert")
    /\ saves' = saves + 1
    /\ \/ /\ collection' = InsertMany(collection, locations)
          /\ pc' = "update"
          /\ UNCHANGED <<errAt, listed, allOk>>
       \/ /\ collection' = collection
          /\ EndIteration("insert")
    /\ UNCHANGED <<exit, now, iteration, devices, locations, ticks, fetches>>
    /\ UNCHANGED <<confVars, authVars, httpVars, envVars>>

(* update_one({"_id": oid}, {"$currentDate": {"timestamp": True}}): the    *)
(* store writes its own clock into the document with that _id              *)
CurrentDate(col, oid, t) ==
    [i \in DOMAIN col |->
        IF col[i].oid = oid THEN [col[i] EXCEPT !.timestamp = t] ELSE col[i]]

(* mongo_collection.update_one(...) for result.inserted_id *)
track_location_update(Steps) ==
    /\ prog = "app"
    /\ pc = "update"
    /\ \/ \E dt \in Steps :
             /\ now' = now + dt
             /\ collection' = CurrentDate(collection,
                                  collection[Len(collection)].oid, now + dt)
             /\ EndIteration("")
       \/ /\ UNCHANGED <<now, collection>>
          /\ EndIteration("update")
    /\ UNCHANGED <<exit, iteration, devices, locations, ticks, fetches, saves,
                   stop>>
    /\ UNCHANGED <<confVars, authVars, httpVars, envVars>>

(* time.sleep(interval) returns; while tracking_active is tested again *)
track_location_sleep(maxIter) ==
    /\ prog = "app"
    /\ pc = "sleep"
    /\ ~SleepRaises(TRACKING_INTERVAL)
    /\ iteration < maxIter
    /\ Logged("tick")
    /\ ticks' = ticks + 1
    /\ now' = now + 1
    /\ pc' = "fetch"
    /\ errAt' = ""
    /\ devices' = << >>
    /\ locations' = << >>
    /\ UNCHANGED <<exit, iteration, collection, fetches, saves, listed, allOk>>
    /\ UNCHANGED <<confVars, authVars, httpVars, envVars>>

----------------------------------------------------------------------------
(* app.py: the HTTP surface *)

(* what a request may carry in the X-API-Key header and in ?api_key=       *)
KeyValues == {"absent", "", "wrong", "secret"}

(* a variant of ProvidedKey that prefers the query parameter *)
ProvidedKeyQueryFirst(header, query) ==
    IF query \notin {"absent", ""} THEN query ELSE header

(* the key the decorator compares: the header, and the query parameter     *)
(* when the header is missing or empty ("not provided_key")                *)
ProvidedKey(header, query) ==
    IF header \notin {"absent", ""} THEN header ELSE query

(* a variant of require_api_key that skips the check when no key is       *)
(* configured                                                              *)
require_api_key_skip(key, header, query) ==
    IF key \in {"unset", ""} THEN 0
    ELSE IF ProvidedKey(header, query) \in {"absent", ""} THEN 401
    ELSE IF ProvidedKey(header, query) # key THEN 403
    ELSE 0

(* a variant of require_api_key that accepts any key that is provided *)
require_api_key_any(key, header, query) ==
    IF key \in {"unset", ""} THEN 500
    ELSE IF ProvidedKey(header, query) \in {"absent", ""} THEN 401
    ELSE 0

(* require_api_key: the status it answers with, or 0 when it calls the     *)
(* wrapped handler                                                         *)
require_api_key(key, header, query) ==
    IF key \in {"unset", ""} THEN 500
    ELSE IF ProvidedKey(header, query) \in {"absent", ""} THEN 401
    ELSE IF ProvidedKey(header, query) # key THEN 403
    ELSE 0

(* a variant of FindLatest that sorts ascending: sort=[("timestamp", 1)] *)
FindOldest(col, d) ==
    {col[i] : i \in {j \in DOMAIN col :
        /\ col[j].device_id = d
        /\ \A k \in DOMAIN col :
              col[k].device_id = d => col[k].timestamp >= col[j].timestamp}}

(* find_one({"device_id": d}, sort=[("timestamp", -1)]): the documents it  *)
(* may return; a document without the key sorts as the smallest value      *)
FindLatest(col, d) ==
    {col[i] : i \in {j \in DOMAIN col :
        /\ col[j].device_id = d
        /\ \A k \in DOMAIN col :
              col[k].device_id = d => col[k].timestamp <= col[j].timestamp}}

(* latest['_id'] = str(latest['_id']);                                     *)
(* latest['timestamp'] = latest['timestamp'].isoformat()                   *)
Rendered(doc) ==
    [doc EXCEPT !.oid = [str |-> doc.oid.ObjectId],
                !.timestamp = [isoformat |-> doc.timestamp]]

(* the rejection of the decorator *)
Rejected(code) == [code |-> code, error |-> "auth"]

(* bookkeeping shared by the handlers: the request, its response and       *)
(* whether the wrapped handler ran                                         *)
Served(endpoint, header, query, response, ran) ==
    /\ prog = "app"
    /\ server = "serving"
    /\ req' = [endpoint |-> endpoint, header |-> header, query |-> query]
    /\ resp' = response
    /\ handlerRan' = ran
    /\ nreq' = nreq + 1
    /\ UNCHANGED pollVars
    /\ UNCHANGED <<confVars, authVars, envVars, stop>>

(* GET /: no decorator *)
index(maxRequests) ==
    /\ nreq < maxRequests
    /\ \E header \in KeyValues, query \in KeyValues :
          Served("/", header, query,
                 [code |-> 200, tracking_active |-> tracking_active], TRUE)
    /\ UNCHANGED <<playSounds, alarmsOk>>

(* the body of get_location: find_one raises, finds nothing, finds a       *)
(* document without "timestamp" (KeyError), or answers the document        *)
GetLocationResponses(col) ==
    {[code |-> 500, error |-> "find_one"]} \cup
    (IF FindLatest(col, TargetId) = {}
     THEN {[code |-> 404, error |-> "No location data found"]}
     ELSE {IF latest.timestamp = NoTime
           THEN [code |-> 500, error |-> "KeyError: timestamp"]
           ELSE [code |-> 200, body |-> Rendered(latest)] :
           latest \in FindLatest(col, TargetId)})

(* GET /location *)
get_location(maxRequests) ==
    /\ nreq < maxRequests
    /\ \E header \in KeyValues, query \in KeyValues :
          LET auth == require_api_key(API_KEY, header, query) IN
          IF auth # 0
          THEN Served("/location", header, query, Rejected(auth), FALSE)
          ELSE \E r \in GetLocationResponses(collection) :
                  Served("/location", header, query, r, TRUE)
    /\ UNCHANGED <<playSounds, alarmsOk>>

(* the body of trigger_alarm: play_sound() is called once; it returns      *)
(* (None) or raises                                                        *)
TriggerAlarmResponses ==
    {[code |-> 200, status |-> "success", play_sound |-> "returned None"],
     [code |-> 500, status |-> "error", play_sound |-> "raised"]}

(* whether a request carries the configured key: its X-API-Key header,    *)
(* or its api_key parameter when it has no (or an empty) header            *)
CarriesCorrectKey(header, query) ==
    /\ API_KEY \notin {"unset", ""}
    /\ IF header \notin {"absent", ""} THEN header = API_KEY
       ELSE query = API_KEY

(* POST /alarm *)
trigger_alarm(maxRequests) ==
    /\ nreq < maxRequests
    /\ \E header \in KeyValues, query \in KeyValues :
          LET auth == require_api_key(API_KEY, header, query) IN
          /\ IF auth # 0
             THEN /\ Served("/alarm", header, query, Rejected(auth), FALSE)
                  /\ playSounds' = playSounds
             ELSE /\ \E r \in TriggerAlarmResponses :
                        Served("/alarm", header, query, r, TRUE)
                  /\ playSounds' = playSounds + 1
          /\ alarmsOk' = IF CarriesCorrectKey(header, query)
                         THEN alarmsOk + 1 ELSE alarmsOk

(* datetime.utcnow().isoformat() + "Z" *)
UtcNow == [isoformat |-> now, suffix |-> "Z"]

(* a variant of get_status that answers from the latest stored record *)
GetStatusFromStore(Answers) ==
    {[code |-> 500, error |-> "status"]} \cup
    {[code |-> 200, device_id |-> TargetId,
      battery_level |-> r.battery_level,
      battery_status |-> r.battery_status,
      timestamp |-> [isoformat |-> r.timestamp, suffix |-> "Z"]] :
      r \in FindLatest(collection, TargetId)}

(* the body of get_status: a live target_device.status() call, which       *)
(* raises or answers; the response carries the time of the request         *)
GetStatusResponses(Answers) ==
    {[code |-> 500, error |-> "status"]} \cup
    {[code |-> 200, device_id |-> TargetId,
      battery_level |-> Get(a.status.batteryLevel),
      battery_status |-> Get(a.status.batteryStatus),
      timestamp |-> UtcNow] :
      a \in {x \in Answers : ~x.status.raises /\ credential = "valid"}}

(* GET /status *)
get_status(Answers, maxRequests) ==
    /\ nreq < maxRequests
    /\ \E header \in KeyValues, query \in KeyValues :
          LET auth == require_api_key(API_KEY, header, query) IN
          IF auth # 0
          THEN Served("/status", header, query, Rejected(auth), FALSE)
          ELSE \E r \in GetStatusResponses(Answers) :
                  Served("/status", header, query, r, TRUE)
    /\ UNCHANGED <<playSounds, alarmsOk>>

----------------------------------------------------------------------------
(* Start-up, stop, and the end of the poll loop *)

(* connect_to_mongodb(): without MONGODB_URI the trackers return None and  *)
(* app.py raises ValueError                                                *)
connect_to_mongodb(uri) == IF uri = "unset" THEN "None" ELSE "collection"

(* a variant of load_icloud_session that does not look at requires_2fa /   *)
(* requires_2sa                                                            *)
load_icloud_session_unchecked(s) == IF s = "missing" THEN "None" ELSE "api"

(* load_icloud_session(): without the session file, or with a session that *)
(* requires 2FA/2SA, the trackers return None and app.py raises            *)
load_icloud_session(s) == IF s = "ok" THEN "api" ELSE "None"

(* main() of the standalone trackers up to the call of the loop; the       *)
(* docker version first reads TRACKING_INTERVAL, outside any try           *)
main ==
    /\ prog \in {"tracker", "docker"}
    /\ pc = "main"
    /\ IF prog = "docker" /\ IntRaises(TRACKING_INTERVAL)
       THEN pc' = "stopped" /\ exit' = "crash"
       ELSE IF \/ connect_to_mongodb(MONGODB_URI) = "None"
               \/ load_icloud_session(session) = "None"
       THEN pc' = "stopped" /\ exit' = "exit1"
       ELSE pc' = "fetch" /\ exit' = exit
    /\ UNCHANGED <<now, iteration, devices, locations, collection, errAt,
                   ticks, fetches, saves, listed, allOk, stop>>
    /\ UNCHANGED <<confVars, authVars, httpVars, envVars>>

(* docker: time.sleep(interval) raises inside the try of                   *)
(* track_continuously, whose except Exception calls sys.exit(1)            *)
TrackerSleepRaises ==
    /\ prog = "docker"
    /\ pc = "sleep"
    /\ SleepRaises(TRACKING_INTERVAL)
    /\ pc' = "stopped"
    /\ exit' = "exit1"
    /\ errAt' = "sleep"
    /\ allOk' = FALSE
    /\ UNCHANGED <<now, iteration, devices, locations, collection, ticks,
                   fetches, saves, listed, stop>>
    /\ UNCHANGED <<confVars, authVars, httpVars, envVars>>

(* Ctrl+C in a standalone tracker.  KeyboardInterrupt is not an Exception: *)
(* it passes the except Exception clauses of fetch_device_locations and    *)
(* save_to_mongodb and reaches the except KeyboardInterrupt of             *)
(* track_continuously (track_once has none), unless it arrives inside the  *)
(* bare except around device.location(), which swallows it                 *)
KeyboardInterrupt(Answers, maxDevices) ==
    /\ prog \in {"tracker", "docker"}
    /\ stop.at = ""
    /\ pc \in {"fetch", "display", "save", "sleep"}
    /\ stop' = [at |-> pc, then |-> << >>]
    /\ LET ends == /\ pc' = "stopped"
                   /\ exit' = IF mode = "once" THEN "crash" ELSE "exit0"
       IN \/ /\ pc \in {"sleep", "display"}
             /\ ends
             /\ UNCHANGED <<iteration, fetches, saves, devices, locations,
                            collection, errAt>>
          \/ /\ pc = "fetch"
             /\ ends
             /\ iteration' = iteration + 1
             /\ fetches' = fetches + 1
             /\ UNCHANGED <<saves, devices, locations, collection, errAt>>
          \/ /\ pc = "fetch"
             /\ credential = "valid"
             /\ \E m \in 1..maxDevices :
                \E devs \in [1..m -> Answers], i \in 1..m :
                   /\ \A j \in 1..i : ~devs[j].status.raises
                   /\ devices' = [devs EXCEPT ![i].loc.kind = "raise"]
                   /\ locations' = FetchedLocations(devices',
                                       [j \in 1..m |-> 0], now, iteration + 1)
                   /\ errAt' = IF \E j \in 1..m : devs[j].status.raises
                               THEN "status" ELSE ""
             /\ pc' = "display"
             /\ iteration' = iteration + 1
             /\ fetches' = fetches + 1
             /\ UNCHANGED <<exit, saves, collection>>
          \/ /\ pc = "save"
             /\ ends
             /\ saves' = saves + 1
             /\ \E k \in 0..Len(locations) :
                   collection' = InsertMany(collection, SubSeq(locations, 1, k))
             /\ UNCHANGED <<iteration, fetches, devices, locations, errAt>>
    /\ UNCHANGED <<now, ticks, listed, allOk>>
    /\ UNCHANGED <<confVars, authVars, httpVars, envVars>>

(* a variant of AfterInitialize in which initialize_app is entered again *)
AfterInitializeAgain == "init"

(* __main__ of app.py after initialize_app() has returned: app.run is next *)
AfterInitialize == "starting"

(* a variant of find_target_device that returns None when no device        *)
(* matches                                                                 *)
find_target_device_or_none(present) == IF present THEN "device" ELSE "None"

(* find_target_device(api): the device whose deviceDisplayName matches, or *)
(* an exception when there is none                                         *)
find_target_device(present) == IF present THEN "device" ELSE "raise"

(* initialize_app(): connect, load the session, find the target device,    *)
(* set tracking_active and start the poll thread; any exception reaches    *)
(* the except Exception of __main__, which calls exit(1)                   *)
initialize_app ==
    /\ prog = "app"
    /\ server = "init"
    /\ LET col == connect_to_mongodb(MONGODB_URI)
           api == load_icloud_session(session)
           dev == find_target_device(targetListed)
           fails == /\ server' = "exited"
                    /\ exit' = "exit1"
                    /\ UNCHANGED <<pc, tracking_active, threads>>
       IN IF col = "None"
          THEN fails /\ UNCHANGED <<mongo_collection, target_device>>
          ELSE IF api = "None" \/ dev = "raise"
          THEN /\ fails
               /\ mongo_collection' = col
               /\ target_device' = target_device
          ELSE /\ mongo_collection' = col
               /\ target_device' = dev
               /\ server' = AfterInitialize
               /\ tracking_active' = TRUE
               /\ threads' = threads + 1
               /\ pc' = "interval"
               /\ exit' = exit
    /\ UNCHANGED <<now, iteration, devices, locations, collection, errAt,
                   ticks, fetches, saves, listed, allOk, stop>>
    /\ UNCHANGED <<confVars, authVars, httpVars, credential, targetListed>>

(* app.run(host, port): the server starts to answer requests *)
app_run ==
    /\ prog = "app"
    /\ server = "starting"
    /\ server' = "serving"
    /\ UNCHANGED <<pollVars, confVars, authVars, httpVars, stop>>
    /\ UNCHANGED <<tracking_active, threads, credential, targetListed,
                   mongo_collection, target_device>>

(* track_location, line 142: the interval is parsed before the loop and    *)
(* outside its try; a ValueError ends the thread                           *)
track_location_start ==
    /\ prog = "app"
    /\ pc = "interval"
    /\ pc' = IF IntRaises(TRACKING_INTERVAL) THEN "dead" ELSE "fetch"
    /\ UNCHANGED <<exit, now, iteration, devices, locations, collection,
                   errAt, ticks, fetches, saves, listed, allOk, stop>>
    /\ UNCHANGED <<confVars, authVars, httpVars, envVars>>

(* track_location, line 205: time.sleep(interval) is outside the try; a    *)
(* ValueError (negative interval) ends the thread                          *)
track_location_sleep_raises ==
    /\ prog = "app"
    /\ pc = "sleep"
    /\ SleepRaises(TRACKING_INTERVAL)
    /\ pc' = "dead"
    /\ UNCHANGED <<exit, now, iteration, devices, locations, collection,
                   errAt, ticks, fetches, saves, listed, allOk, stop>>
    /\ UNCHANGED <<confVars, authVars, httpVars, envVars>>

(* track_location: while tracking_active is false; the thread returns *)
track_location_return ==
    /\ prog = "app"
    /\ pc = "fetch"
    /\ ~tracking_active
    /\ pc' = "stopped"
    /\ UNCHANGED <<exit, now, iteration, devices, locations, collection,
                   errAt, ticks, fetches, saves, listed, allOk, stop>>
    /\ UNCHANGED <<confVars, authVars, httpVars, envVars>>

(* Ctrl+C while app.run serves: app.run lets the KeyboardInterrupt through *)
(* and __main__ sets tracking_active = False, or the server catches it and *)
(* app.run returns; the poll thread is not told either way                 *)
main_KeyboardInterrupt ==
    /\ prog = "app"
    /\ server = "serving"
    /\ stop.at = ""
    /\ stop' = [at |-> pc, then |-> << >>]
    /\ server' = "stopping"
    /\ \E propagated \in BOOLEAN :
          tracking_active' = (tracking_active /\ ~propagated)
    /\ UNCHANGED <<pollVars, confVars, authVars, httpVars>>
    /\ UNCHANGED <<threads, credential, targetListed,
                   mongo_collection, target_device>>

(* the main thread of app.py ends: the interpreter exits and the daemon    *)
(* poll thread ends with it                                                *)
main_exit ==
    /\ prog = "app"
    /\ server = "stopping"
    /\ server' = "exited"
    /\ exit' = "exit0"
    /\ pc' = IF pc \in {"dead", "stopped"} THEN pc ELSE "killed"
    /\ UNCHANGED <<now, iteration, devices, locations, collection, errAt,
                   ticks, fetches, saves, listed, allOk, stop>>
    /\ UNCHANGED <<confVars, authVars, httpVars>>
    /\ UNCHANGED <<tracking_active, threads, credential, targetListed,
                   mongo_collection, target_device>>

(* the provider starts to require re-authentication: from now on its calls *)
(* raise; the loop meets this at the first provider call of its next       *)
(* iteration                                                               *)
CredentialExpires ==
    /\ credential = "valid"
    /\ exit = "running"
    /\ pc = "fetch"
    /\ credential' = "expired"
    /\ UNCHANGED <<pollVars, confVars, authVars, httpVars, stop>>
    /\ UNCHANGED <<tracking_active, server, threads, targetListed,
                   mongo_collection, target_device>>

(* the device that find_target_device selects leaves the account, or one   *)
(* joins it                                                                *)
AccountChanges ==
    /\ exit = "running"
    /\ targetListed' = ~targetListed
    /\ UNCHANGED <<pollVars, confVars, authVars, httpVars, stop>>
    /\ UNCHANGED <<tracking_active, server, threads, credential,
                   mongo_collection, target_device>>

----------------------------------------------------------------------------
(* src/setup: the interactive auth scripts icloud_auth.py                  *)
(* (prog = "icloud_auth") and findmy_auth.py (prog = "findmy_auth").  The  *)
(* provider libraries are the environment: a call returns one of its       *)
(* values or raises.  devices holds the trusted devices (2SA) or the       *)
(* second-factor methods (findmy) that were listed.                        *)

MaxTrusted == 2

(* what the auth scripts leave alone *)
AuthFrame ==
    /\ UNCHANGED <<now, iteration, locations, collection, errAt, ticks,
                   fetches, saves, listed, allOk, stop>>
    /\ UNCHANGED <<confVars, httpVars, envVars>>

(* devices[int(input())], methods[int(input())]: IndexError outside        *)
(* -n .. n-1                                                               *)
IndexRaises(n, i) == i >= n \/ i < 0 - n

(* the position (from 1) of the element that index i selects in a list of  *)
(* n: a negative index counts from the end                                 *)
Position(n, i) == IF i < 0 THEN n + 1 + i ELSE i + 1

(* authenticate(): return None, from a failed check or from its except     *)
(* Exception; main() then returns 1                                        *)
ReturnsNone ==
    /\ pc' = "end"
    /\ exit' = "exit1"
    /\ login' = "failed"

(* PyiCloudService(email, password), then api.requires_2fa and             *)
(* api.requires_2sa                                                        *)
authenticate_login ==
    /\ prog = "icloud_auth"
    /\ pc = "start"
    /\ \/ ReturnsNone
       \/ /\ pc' \in {"2fa", "2sa"}
          /\ UNCHANGED <<exit, login>>
       \/ /\ pc' = "save"
          /\ login' = "ok"
          /\ exit' = exit
    /\ UNCHANGED <<devices, session_file, account_closed, selected_device>>
    /\ AuthFrame

(* a variant of AfterCheck that goes on whatever the result *)
AfterCheckIgnored(result, next) == next

(* "if not result: return None": where authenticate goes after a check *)
AfterCheck(result, next) == IF result THEN next ELSE "end"

(* a check of authenticate: the call raises, or returns True or False *)
Checked(next, outcome) ==
    \/ ReturnsNone
    \/ \E result \in BOOLEAN :
          /\ pc' = AfterCheck(result, next)
          /\ exit' = IF pc' = "end" THEN "exit1" ELSE exit
          /\ login' = IF result THEN outcome ELSE "failed"

(* api.validate_2fa_code(code) *)
authenticate_2fa ==
    /\ prog = "icloud_auth"
    /\ pc = "2fa"
    /\ Checked("trust", "ok")
    /\ UNCHANGED <<devices, session_file, account_closed, selected_device>>
    /\ AuthFrame

(* api.is_trusted_session, api.trust_session(): a session that cannot be   *)
(* trusted is reported and saved all the same                              *)
authenticate_trust ==
    /\ prog = "icloud_auth"
    /\ pc = "trust"
    /\ \/ ReturnsNone
       \/ /\ pc' = "save"
          /\ UNCHANGED <<exit, login>>
    /\ UNCHANGED <<devices, session_file, account_closed, selected_device>>
    /\ AuthFrame

(* devices = api.trusted_devices *)
authenticate_2sa_devices ==
    /\ prog = "icloud_auth"
    /\ pc = "2sa"
    /\ \/ ReturnsNone /\ devices' = devices
       \/ \E n \in 0..MaxTrusted :
             /\ devices' = [i \in 1..n |-> i]
             /\ pc' = "select"
             /\ UNCHANGED <<exit, login>>
    /\ UNCHANGED <<session_file, account_closed, selected_device>>
    /\ AuthFrame

(* selected_device = devices[int(input(...))]: ValueError for a text that  *)
(* is no number, IndexError for a number out of range                      *)
authenticate_2sa_select ==
    /\ prog = "icloud_auth"
    /\ pc = "select"
    /\ \/ ReturnsNone /\ selected_device' = selected_device
       \/ \E i \in -1..MaxTrusted :
             IF IndexRaises(Len(devices), i)
             THEN ReturnsNone /\ selected_device' = selected_device
             ELSE /\ pc' = "send"
                  /\ selected_device' = Position(Len(devices), i)
                  /\ UNCHANGED <<exit, login>>
    /\ UNCHANGED <<devices, session_file, account_closed>>
    /\ AuthFrame

(* api.send_verification_code(selected_device) *)
authenticate_2sa_send ==
    /\ prog = "icloud_auth"
    /\ pc = "send"
    /\ Checked("code", "")
    /\ UNCHANGED <<devices, session_file, account_closed, selected_device>>
    /\ AuthFrame

(* api.validate_verification_code(selected_device, code) *)
authenticate_2sa_validate ==
    /\ prog = "icloud_auth"
    /\ pc = "code"
    /\ Checked("save", "ok")
    /\ UNCHANGED <<devices, session_file, account_closed, selected_device>>
    /\ AuthFrame

(* pickle.dump({...}, open("icloud_session.pkl", "wb")); return api; main  *)
(* returns 0                                                               *)
authenticate_save ==
    /\ prog = "icloud_auth"
    /\ pc = "save"
    /\ session_file' = "new"
    /\ pc' = "end"
    /\ exit' = "exit0"
    /\ UNCHANGED <<devices, login, account_closed, selected_device>>
    /\ AuthFrame

(* findmy_auth.py has no try: an exception of the library ends the script  *)
(* with a traceback                                                        *)
Uncaught ==
    /\ pc' = "end"
    /\ exit' = "crash"
    /\ login' = "failed"

(* main() of findmy_auth.py: with a session file the user may choose to    *)
(* use it (restore_session, then account.close()); otherwise               *)
(* login_new_account                                                       *)
findmy_main ==
    /\ prog = "findmy_auth"
    /\ pc = "start"
    /\ \/ /\ session_file # "absent"
          /\ \/ /\ pc' = "end"
                /\ exit' = "exit0"
                /\ account_closed' = TRUE
                /\ login' = login
             \/ Uncaught /\ account_closed' = account_closed
       \/ /\ pc' = "login"
          /\ UNCHANGED <<exit, login, account_closed>>
    /\ UNCHANGED <<devices, session_file, selected_device>>
    /\ AuthFrame

(* LoginState, as account.login returns it *)
LoginStates == {"LOGGED_OUT", "REQUIRE_2FA", "AUTHENTICATED", "LOGGED_IN"}

(* the branches of login_new_account on the state *)
AfterLogin(state) ==
    IF state = "REQUIRE_2FA" THEN "methods"
    ELSE IF state = "LOGGED_IN" THEN "save"
    ELSE "end"

(* state = account.login(email, password); an unexpected state closes the  *)
(* account and returns None, and main returns 1                            *)
login_new_account_login ==
    /\ prog = "findmy_auth"
    /\ pc = "login"
    /\ \/ Uncaught /\ account_closed' = account_closed
       \/ \E state \in LoginStates :
             /\ pc' = AfterLogin(state)
             /\ login' = IF state = "LOGGED_IN" THEN "ok"
                         ELSE IF state = "REQUIRE_2FA" THEN login
                         ELSE "failed"
             /\ account_closed' = (pc' = "end")
             /\ exit' = IF pc' = "end" THEN "exit1" ELSE exit
    /\ UNCHANGED <<devices, session_file, selected_device>>
    /\ AuthFrame

(* methods = account.get_2fa_methods() *)
login_new_account_methods ==
    /\ prog = "findmy_auth"
    /\ pc = "methods"
    /\ \/ Uncaught /\ devices' = devices
       \/ \E n \in 0..MaxTrusted :
             /\ devices' = [i \in 1..n |-> i]
             /\ pc' = "select"
             /\ UNCHANGED <<exit, login>>
    /\ UNCHANGED <<session_file, account_closed, selected_device>>
    /\ AuthFrame

(* selected_method = methods[int(input(...))] *)
login_new_account_select ==
    /\ prog = "findmy_auth"
    /\ pc = "select"
    /\ \/ Uncaught /\ selected_device' = selected_device
       \/ \E i \in -1..MaxTrusted :
             IF IndexRaises(Len(devices), i)
             THEN Uncaught /\ selected_device' = selected_device
             ELSE /\ pc' = "request"
                  /\ selected_device' = Position(Len(devices), i)
                  /\ UNCHANGED <<exit, login>>
    /\ UNCHANGED <<devices, session_file, account_closed>>
    /\ AuthFrame

(* selected_method.request() *)
login_new_account_request ==
    /\ prog = "findmy_auth"
    /\ pc = "request"
    /\ \/ Uncaught
       \/ pc' = "submit" /\ UNCHANGED <<exit, login>>
    /\ UNCHANGED <<devices, session_file, account_closed, selected_device>>
    /\ AuthFrame

(* selected_method.submit(code): the library raises when the code is not   *)
(* accepted and returns when the account is logged in                      *)
login_new_account_submit ==
    /\ prog = "findmy_auth"
    /\ pc = "submit"
    /\ \/ Uncaught
       \/ /\ pc' = "save"
          /\ login' = "ok"
          /\ exit' = exit
    /\ UNCHANGED <<devices, session_file, account_closed, selected_device>>
    /\ AuthFrame

(* account.to_json("account.json"); return account; main closes the        *)
(* account and returns 0                                                   *)
login_new_account_save ==
    /\ prog = "findmy_auth"
    /\ pc = "save"
    /\ session_file' = "new"
    /\ account_closed' = TRUE
    /\ pc' = "end"
    /\ exit' = "exit0"
    /\ UNCHANGED <<devices, login, selected_device>>
    /\ AuthFrame

----------------------------------------------------------------------------
NoRequest == [endpoint |-> "", header |-> "", query |-> ""]
NoResponse == [code |-> 0]

InitCommon ==
    /\ exit = "running"
    /\ now = 0
    /\ iteration = 0
    /\ devices = << >>
    /\ locations = << >>
    /\ collection = << >>
    /\ errAt = ""
    /\ ticks = 0
    /\ fetches = 0
    /\ saves = 0
    /\ listed = << >>
    /\ allOk = TRUE
    /\ req = NoRequest
    /\ resp = NoResponse
    /\ handlerRan = FALSE
    /\ nreq = 0
    /\ playSounds = 0
    /\ alarmsOk = 0
    /\ credential = "valid"
    /\ stop = NoStop
    /\ login = ""
    /\ account_closed = FALSE
    /\ selected_device = 0

(* the state once main() / initialize_app() has connected, loaded the       *)
(* session and is about to enter the loop or start the poll thread         *)
Init ==
    /\ InitCommon
    /\ pc = "fetch"
    /\ targetListed = TRUE
    /\ MONGODB_URI = "set"
    /\ session = "ok"
    /\ session_file = "old"
    /\ TRACKING_INTERVAL = "300"
    /\ \/ prog = "tracker" /\ mode \in {"once", "continuous"}
             /\ tracking_active = FALSE /\ API_KEY = "unset"
             /\ server = "none" /\ threads = 0
             /\ mongo_collection = "None" /\ target_device = "None"
       \/ prog = "docker" /\ mode = "continuous"
             /\ tracking_active = FALSE /\ API_KEY = "unset"
             /\ server = "none" /\ threads = 0
             /\ mongo_collection = "None" /\ target_device = "None"
       \/ prog = "app" /\ mode = "continuous"
             /\ tracking_active = TRUE
             /\ API_KEY \in {"unset", "", "secret"}
             /\ server = "serving" /\ threads = 1
             /\ mongo_collection = "collection" /\ target_device = "device"

Next ==
    \/ fetch_device_locations(LoopAnswers, MaxDevices, 0..1)
    \/ display_summary
    \/ save_to_mongodb
    \/ TrackerSleep(MaxIter)
    \/ track_location_fetch(LoopAnswers)
    \/ track_location_insert
    \/ track_location_update(0..1)
    \/ track_location_sleep(MaxIter)

Spec == Init /\ [][Next]_vars

(* one poll iteration of each script against every answer of the provider *)
MapDevices == 1

NextMap ==
    \/ fetch_device_locations(AllAnswers, MapDevices, {0})
    \/ display_summary
    \/ save_to_mongodb
    \/ track_location_fetch(AllAnswers)
    \/ track_location_insert
    \/ track_location_update({0})

SpecMap == Init /\ [][NextMap]_vars

(* the single-shot and the continuous mode of the standalone trackers *)
ModeDevices == 1

NextModes ==
    \/ fetch_device_locations(LoopAnswers, ModeDevices, {0})
    \/ display_summary
    \/ save_to_mongodb
    \/ TrackerSleep(MaxTicks + 1)

InitModes == Init /\ prog \in {"tracker", "docker"}

SpecModes == InitModes /\ [][NextModes]_vars

(* app.py: the poll thread and the request handlers *)
InitHttp == Init /\ prog = "app"

NextHttp ==
    \/ track_location_fetch(LoopAnswers)
    \/ track_location_insert
    \/ track_location_update(0..1)
    \/ track_location_sleep(MaxIter)
    \/ index(MaxRequests)
    \/ get_location(MaxRequests)
    \/ trigger_alarm(MaxRequests)
    \/ get_status(LoopAnswers, MaxRequests)

SpecHttp == InitHttp /\ [][NextHttp]_vars

(* each script from the start of its process to its end: start-up, the     *)
(* loop, a stop request, a credential that expires, an account that changes *)
LifeDevices == 1

InitLife ==
    /\ InitCommon
    /\ MONGODB_URI \in {"unset", "set"}
    /\ session \in {"missing", "2fa", "ok"}
    /\ session_file = IF session = "missing" THEN "absent" ELSE "old"
    /\ tracking_active = FALSE
    /\ threads = 0
    /\ mongo_collection = "None"
    /\ target_device = "None"
    /\ \/ /\ prog = "tracker" /\ mode \in {"once", "continuous"}
          /\ pc = "main" /\ server = "none" /\ API_KEY = "unset"
          /\ TRACKING_INTERVAL = "300" /\ targetListed = TRUE
       \/ /\ prog = "docker" /\ mode = "continuous"
          /\ pc = "main" /\ server = "none" /\ API_KEY = "unset"
          /\ TRACKING_INTERVAL \in {"300", "abc", "-5"}
          /\ targetListed = TRUE
       \/ /\ prog = "app" /\ mode = "continuous"
          /\ pc = "unstarted" /\ server = "init"
          /\ API_KEY \in {"unset", "secret"}
          /\ TRACKING_INTERVAL \in {"300", "abc", "-5"}
          /\ targetListed \in BOOLEAN

NextLife ==
    \/ main
    \/ fetch_device_locations(LoopAnswers, LifeDevices, {0})
    \/ display_summary
    \/ save_to_mongodb
    \/ TrackerSleep(MaxIter)
    \/ TrackerSleepRaises
    \/ KeyboardInterrupt(LoopAnswers, LifeDevices)
    \/ initialize_app
    \/ app_run
    \/ track_location_start
    \/ track_location_fetch(LoopAnswers)
    \/ track_location_insert
    \/ track_location_update({0})
    \/ track_location_sleep(MaxIter)
    \/ track_location_sleep_raises
    \/ track_location_return
    \/ main_KeyboardInterrupt
    \/ main_exit
    \/ index(MaxRequests)
    \/ CredentialExpires
    \/ AccountChanges

SpecLife == InitLife /\ [][NextLife]_vars

(* one run of each interactive auth script, with and without a session     *)
(* file from an earlier run                                                *)
InitAuth ==
    /\ InitCommon
    /\ prog \in {"icloud_auth", "findmy_auth"}
    /\ pc = "start"
    /\ session_file \in {"absent", "old"}
    /\ session = IF session_file = "absent" THEN "missing" ELSE "ok"
    /\ mode = "once"
    /\ API_KEY = "unset"
    /\ MONGODB_URI = "unset"
    /\ TRACKING_INTERVAL = "300"
    /\ tracking_active = FALSE
    /\ server = "none"
    /\ threads = 0
    /\ targetListed = TRUE
    /\ mongo_collection = "None"
    /\ target_device = "None"

NextAuth ==
    \/ authenticate_login
    \/ authenticate_2fa
    \/ authenticate_trust
    \/ authenticate_2sa_devices
    \/ authenticate_2sa_select
    \/ authenticate_2sa_send
    \/ authenticate_2sa_validate
    \/ authenticate_save
    \/ findmy_main
    \/ login_new_account_login
    \/ login_new_account_methods
    \/ login_new_account_select
    \/ login_new_account_request
    \/ login_new_account_submit
    \/ login_new_account_save

SpecAuth == InitAuth /\ [][NextAuth]_vars

----------------------------------------------------------------------------
(* Properties *)

(* an iteration is complete: the loop sleeps, has returned, or is about to *)
(* start the next iteration                                                *)
BetweenIterations == pc \in {"sleep", "done", "fetch"}

(* the iterations so far all listed the same number of devices *)
SameM == \A i \in DOMAIN listed : listed[i] = listed[1]

(* C1: after N iterations that all succeeded against a provider listing M  *)
(* devices each time, the collection holds exactly N*M records, one per    *)
(* device and iteration, and the most-recent lookup for every device       *)
(* returns the record of iteration N                                       *)
C1_NTimesM ==
    (BetweenIterations /\ allOk /\ listed # << >> /\ SameM) =>
        LET N == Len(listed)
            M == listed[1]
        IN /\ Len(collection) = N * M
           /\ \A k \in 1..N, d \in 1..M :
                 Cardinality({i \in DOMAIN collection :
                     collection[i].iter = k /\ collection[i].device_id = d}) = 1
           /\ \A d \in 1..M :
                 /\ FindLatest(collection, d) # {}
                 /\ \A r \in FindLatest(collection, d) : r.iter = N

C1_Witness ==
    /\ prog = "tracker"
    /\ pc = "sleep"
    /\ allOk
    /\ listed = <<2, 2>>
    /\ Len(collection) = 4

(* C5 as claimed: in a continuous loop an exception in an iteration leaves *)
(* no record of that iteration in the collection and the loop goes on (it  *)
(* is not stopped and the process has not ended)                           *)
C5_ErrorNeverEndsLoop ==
    (mode = "continuous" /\ errAt # "") =>
        /\ pc # "stopped"
        /\ exit = "running"
        /\ \A i \in DOMAIN collection : collection[i].iter # iteration

(* C6: the creation timestamps in the collection are non-decreasing in     *)
(* insertion order (over the records that have one)                        *)
C6_TimestampsNonDecreasing ==
    \A i \in DOMAIN collection, j \in DOMAIN collection :
        (i < j /\ collection[i].timestamp # NoTime
               /\ collection[j].timestamp # NoTime)
            => collection[i].timestamp <= collection[j].timestamp

C6_Witness ==
    /\ Len(collection) >= 3
    /\ collection[1].iter = collection[2].iter
    /\ collection[1].timestamp < collection[2].timestamp
    /\ collection[2].timestamp < collection[3].timestamp

(* C7 as claimed: no record handed to the store carries a timestamp of the *)
(* client; the store assigns it                                            *)
C7_StoreAssignsTimestamp ==
    pc \in {"save", "insert"} =>
        \A i \in DOMAIN locations : locations[i].timestamp = NoTime

(* C8: track_once runs one fetch, one save, never sleeps and ends; in      *)
(* track_continuously every tick of the interval is preceded by exactly    *)
(* one cycle: after k ticks, k fetches and k saves                         *)
C8_OneCyclePerTick ==
    /\ mode = "once" =>
          /\ ticks = 0
          /\ pc # "sleep"
          /\ fetches <= 1
          /\ saves <= 1
          /\ Len(collection) <= Len(locations)
          /\ pc = "done" => (fetches = 1 /\ saves = 1 /\ exit = "exit0")
    /\ mode = "continuous" =>
          /\ pc = "fetch" => (fetches = ticks /\ saves = ticks)
          /\ pc \in {"display", "save", "stopped"} =>
                (fetches = ticks + 1 /\ saves = ticks)
          /\ pc = "sleep" => (fetches = ticks + 1 /\ saves = ticks + 1)

C8_Witness ==
    /\ mode = "continuous"
    /\ pc = "fetch"
    /\ ticks = 3
    /\ saves = 3
    /\ Len(collection) = 3

(* the location lookup of a device answer yields Unavailable *)
Unavailable(ans) == ans.loc.kind \in {"raise", "none"}

(* record r is in the collection *)
Stored(r) ==
    \E j \in DOMAIN collection :
        /\ collection[j].iter = r.iter
        /\ collection[j].device_id = r.device_id
        /\ collection[j].name = r.name
        /\ collection[j].battery_level = r.battery_level
        /\ collection[j].battery_status = r.battery_status
        /\ collection[j].location = r.location
        /\ collection[j].location_data = r.location_data

(* the insert of the current iteration has returned *)
InsertReturned ==
    IF prog = "app"
    THEN pc = "update" \/ (pc = "sleep" /\ errAt \in {"", "update"})
    ELSE pc \in {"sleep", "done"} /\ errAt = "" /\ locations # << >>

(* C9: a device whose location lookup raises or returns nothing is mapped  *)
(* to a record with location and location_data null and its device and     *)
(* battery fields; mapping and printing such a device never raises, and    *)
(* the record is in the collection once the insert has returned            *)
C9_UnavailableMapsToNull ==
    /\ \A i \in DOMAIN devices :
          (Unavailable(devices[i]) /\ errAt \notin {"list", "status"}) =>
             /\ i \in DOMAIN locations
             /\ locations[i].location = None
             /\ locations[i].location_data = None
             /\ locations[i].device_id = i
             /\ locations[i].name =
                   (IF devices[i].name = "absent" THEN "Unknown"
                    ELSE devices[i].name)
             /\ locations[i].battery_level =
                   (IF devices[i].status.batteryLevel = "absent" THEN "None"
                    ELSE devices[i].status.batteryLevel)
             /\ locations[i].battery_status =
                   (IF devices[i].status.batteryStatus = "absent" THEN "None"
                    ELSE devices[i].status.batteryStatus)
             /\ InsertReturned => Stored(locations[i])
    /\ errAt \in {"display", "print"} =>
          \E i \in DOMAIN devices : ~Unavailable(devices[i])

C9_Witness ==
    /\ prog = "app"
    /\ pc = "sleep"
    /\ errAt = ""
    /\ Len(devices) = 1
    /\ devices[1].loc.kind = "raise"
    /\ devices[1].status.batteryLevel = "absent"
    /\ Len(collection) = 1
    /\ collection[1].location = None
    /\ collection[1].location_data = None

(* C10 as claimed: whatever optional fields the provider leaves out, the   *)
(* iteration does not fail after the device was read, and the record is in *)
(* the collection once the insert has returned                             *)
C10_PartialInputTolerated ==
    /\ errAt \notin {"display", "print"}
    /\ exit # "crash"
    /\ InsertReturned => \A i \in DOMAIN locations : Stored(locations[i])

(* a request that carries no key, only wrong keys, only the right key *)
NoKey(r) == {r.header, r.query} \subseteq {"absent", ""}
OnlyWrongKey(r) == ~NoKey(r) /\ {r.header, r.query} \subseteq {"absent", "", "wrong"}
OnlyCorrectKey(r) ==
    ~NoKey(r) /\ {r.header, r.query} \subseteq {"absent", "", API_KEY}

(* C2 as claimed: with a key configured, GET /location answers 401 without *)
(* a key, 403 with a wrong key, 404 with the key and no record of the      *)
(* target device, and otherwise 200 with the most recent record, its       *)
(* identifier a string and its timestamp an ISO string (the store having   *)
(* answered the read)                                                      *)
C2_Step ==
    (nreq' = nreq + 1 /\ req'.endpoint = "/location" /\ API_KEY = "secret") =>
        /\ NoKey(req') => resp'.code = 401
        /\ OnlyWrongKey(req') => resp'.code = 403
        /\ (OnlyCorrectKey(req') /\ resp'.error # "find_one") =>
              IF \A i \in DOMAIN collection : collection[i].device_id # TargetId
              THEN resp'.code = 404
              ELSE /\ resp'.code = 200
                   /\ \E r \in FindLatest(collection, TargetId) :
                         /\ resp'.body.oid = [str |-> r.oid.ObjectId]
                         /\ resp'.body.timestamp = [isoformat |-> r.timestamp]
                         /\ resp'.body.location_data = r.location_data

(* C2 as claimed, of every GET /location request served *)
C2_GetLocationCodes == [][C2_Step]_vars

C4_OnePlaySoundPerAlarm ==
    /\ playSounds = alarmsOk
    /\ req.endpoint = "/alarm" =>
          /\ handlerRan <=> CarriesCorrectKey(req.header, req.query)
          /\ (handlerRan /\ resp.play_sound = "returned None") =>
                (resp.code = 200 /\ resp.status = "success")
          /\ ~handlerRan => resp.code \in {401, 403, 500}

C4_Witness ==
    /\ playSounds = 2
    /\ nreq = 2
    /\ req.endpoint = "/alarm"
    /\ resp.code = 200

(* C11 as claimed: once a stop has been requested while the poll loop is   *)
(* in its sleep between two iterations, the loop does not run that sleep   *)
(* to its end and starts no fetch and no insert; the loop of a standalone  *)
(* tracker is stopped at once                                              *)
C11_StopCutsSleepShort ==
    stop.at = "sleep" =>
        /\ stop.then = << >>
        /\ prog \in {"tracker", "docker"} => pc = "stopped"

(* start-up cannot succeed: no connection string, no session file, or a    *)
(* session that requires 2FA/2SA                                           *)
StartupFails == MONGODB_URI = "unset" \/ session \in {"missing", "2fa"}

(* C12: when the connection string is not configured, the session file is  *)
(* absent or the session requires re-authentication, start-up ends the     *)
(* process with a non-zero status: no poll iteration runs, nothing is      *)
(* inserted, and app.py starts no poll thread and serves no request        *)
C12_StartupFailureIsFatal ==
    StartupFails =>
        /\ iteration = 0 /\ fetches = 0 /\ saves = 0
        /\ collection = << >>
        /\ threads = 0 /\ ~tracking_active /\ nreq = 0
        /\ IF prog = "app"
           THEN /\ pc = "unstarted"
                /\ server \in {"init", "exited"}
                /\ server = "exited" => exit = "exit1"
           ELSE /\ pc \in {"main", "stopped"}
                /\ pc = "stopped" => exit \in {"exit1", "crash"}

C12_Witness ==
    /\ prog = "app"
    /\ MONGODB_URI = "set"
    /\ session = "2fa"
    /\ targetListed
    /\ server = "exited"
    /\ exit = "exit1"
    /\ pc = "unstarted"

(* C13 as claimed: once an iteration has failed because the provider       *)
(* requires re-authentication, the poll loop is aborted: it does not go    *)
(* round to another iteration at the next tick                             *)
C13_Step ==
    (credential = "expired" /\ pc = "sleep" /\ errAt \in {"list", "status"})
        => pc' # "fetch"

(* C13 as claimed, of every step of the poll loop *)
C13_AuthExpiredAbortsLoop == [][C13_Step]_vars

(* the record that is built for device i when its location lookup returns  *)
(* None (location not available)                                           *)
RecordIfUnavailable(i) ==
    DeviceInfo(i, [devices[i] EXCEPT !.loc.kind = "none"],
               locations[i].timestamp, locations[i].iter)

(* C14 as claimed: a location lookup that raises does not end in the       *)
(* record, persisted with null location fields, that a lookup reporting    *)
(* the location as unavailable ends in (the iteration not reporting an     *)
(* error either)                                                           *)
C14_FailureDistinctFromUnavailable ==
    \A i \in DOMAIN devices :
        (/\ devices[i].loc.kind = "raise"
         /\ i \in DOMAIN locations
         /\ InsertReturned
         /\ Stored(locations[i]))
            => \/ errAt # ""
               \/ locations[i] # RecordIfUnavailable(i)

(* C15: a record is written only by the insert of the iteration that built *)
(* it; when an insert fails the continuous loop goes to its sleep, and no  *)
(* insert is attempted again in an iteration whose insert has failed       *)
C15_Step ==
    /\ \A i \in DOMAIN collection' :
          i \notin DOMAIN collection =>
             /\ collection'[i].iter = iteration
             /\ saves' = saves + 1
    /\ (errAt' = "insert" /\ mode = "continuous") => pc' = "sleep"
    /\ saves' # saves => errAt # "insert"
    /\ (errAt = "insert" /\ pc = "sleep" /\ pc' # "sleep") =>
          (pc' = "fetch" /\ iteration' = iteration /\ locations' = << >>)

(* C15, of every step of the poll loops *)
C15_NoRetryNoReplay == [][C15_Step]_vars

C15_Witness ==
    /\ prog = "tracker"
    /\ pc = "sleep"
    /\ iteration = 2
    /\ listed = <<2, 2>>
    /\ Len(collection) = 3
    /\ collection[1].iter = 1
    /\ collection[2].iter = 2
    /\ collection[3].iter = 2
    /\ errAt = ""

(* the poll thread of app.py exists and has not ended *)
PollThreadRunning == pc \in {"interval", "fetch", "insert", "update", "sleep"}

(* C16 as claimed: GET / is answered without a key, and reports            *)
(* tracking_active true exactly when the poll thread is running            *)
C16_Step ==
    (nreq' = nreq + 1 /\ req'.endpoint = "/") =>
        /\ resp'.code = 200
        /\ resp'.tracking_active <=> PollThreadRunning

(* C16 as claimed, of every GET / request served *)
C16_IndexReportsLiveness == [][C16_Step]_vars

(* C17 as claimed: no step of the system changes or removes a record that  *)
(* is in the collection                                                    *)
C17_Step ==
    \A i \in DOMAIN collection :
        /\ i \in DOMAIN collection'
        /\ collection'[i] = collection[i]

(* C17 as claimed, of every step of the poll loops *)
C17_AppendOnly == [][C17_Step]_vars

(* C18: app.py starts at most one poll thread, whatever start-up and       *)
(* requests do; a poll loop that runs is that one thread, started by       *)
(* initialize_app and not by a request handler                             *)
C18_SinglePoller ==
    /\ threads <= 1
    /\ (prog = "app" /\ pc # "unstarted") => threads = 1
    /\ (prog = "app" /\ threads = 0) => (nreq = 0 /\ collection = << >>)

C18_Witness ==
    /\ prog = "app"
    /\ threads = 1
    /\ nreq = 2
    /\ pc = "sleep"
    /\ iteration = 2
    /\ Len(collection) = 2

(* C19: a request leaves the collection (and the poll loop) as it is, and  *)
(* a 200 answer of GET /status carries the battery values of a status()    *)
(* call answered by the provider and the time of the request, also when    *)
(* the collection is empty                                                 *)
C19_Step ==
    nreq' = nreq + 1 =>
        /\ collection' = collection
        /\ locations' = locations
        /\ saves' = saves
        /\ (req'.endpoint = "/status" /\ resp'.code = 200) =>
              /\ resp'.timestamp = UtcNow
              /\ \E a \in LoopAnswers :
                    /\ ~a.status.raises
                    /\ resp'.battery_level = Get(a.status.batteryLevel)
                    /\ resp'.battery_status = Get(a.status.batteryStatus)

(* C19, of every request served *)
C19_HandlersLeaveStore == [][C19_Step]_vars

C19_Witness ==
    /\ req.endpoint = "/status"
    /\ resp.code = 200
    /\ resp.battery_level = "0.82"
    /\ nreq = 2
    /\ collection = << >>
    /\ pc = "insert"

(* C20 as claimed: every iteration takes its device(s) from the provider's *)
(* list of that moment: app.py's loop builds a record only for a device    *)
(* that the account lists, and its filter selects, when the iteration runs *)
C20_Step ==
    (prog = "app" /\ fetches' = fetches + 1 /\ locations' # << >>)
        => targetListed

(* C20 as claimed, of every iteration of the poll loops *)
C20_TargetReselected == [][C20_Step]_vars

(* the records of iteration k in the collection *)
RecordsOf(k) == {i \in DOMAIN collection : collection[i].iter = k}

(* C21 as claimed: every completed iteration of a standalone tracker has   *)
(* left in the collection either one record for each device the provider   *)
(* listed or no record; an iteration in which a device read or the insert  *)
(* failed has left none                                                    *)
C21_AllOrNothing ==
    (prog \in {"tracker", "docker"} /\ BetweenIterations) =>
        /\ \A k \in DOMAIN listed :
              Cardinality(RecordsOf(k)) \in {0, listed[k]}
        /\ (errAt # "" /\ pc # "fetch") => RecordsOf(iteration) = {}

(* C22 as claimed: a GET /location whose handler runs ends in 200 or 404   *)
(* (in 500 only when the read of the store itself fails), and when the     *)
(* poll thread leaves its update every record has its timestamp            *)
C22_Step ==
    /\ (nreq' = nreq + 1 /\ req'.endpoint = "/location" /\ handlerRan') =>
          \/ resp'.code \in {200, 404}
          \/ resp'.code = 500 /\ resp'.error = "find_one"
    /\ (pc = "update" /\ pc' # "update") =>
          \A i \in DOMAIN collection' : collection'[i].timestamp # NoTime

(* C22 as claimed, of every step of app.py *)
C22_NoRecordWithoutTimestamp == [][C22_Step]_vars

(* the endpoints wrapped in require_api_key *)
Protected(r) == r.endpoint \in {"/location", "/status", "/alarm"}

(* C23: with a key configured, a protected endpoint decides on the         *)
(* X-API-Key header when it is present and non-empty, whatever api_key     *)
(* says, and on the api_key parameter only when the header is absent or    *)
(* empty                                                                   *)
C23_HeaderBeforeQuery ==
    (API_KEY = "secret" /\ Protected(req)) =>
        IF req.header \notin {"absent", ""}
        THEN /\ handlerRan <=> req.header = API_KEY
             /\ req.header # API_KEY => resp.code = 403
        ELSE /\ handlerRan <=> req.query = API_KEY
             /\ req.query \in {"absent", ""} => resp.code = 401
             /\ req.query = "wrong" => resp.code = 403

C23_Witness ==
    /\ API_KEY = "secret"
    /\ req.endpoint = "/status"
    /\ req.header = "wrong"
    /\ req.query = "secret"
    /\ resp.code = 403
    /\ ~handlerRan

(* C24: whenever the poll thread of app.py exists or a request has been    *)
(* served, mongo_collection and target_device are set; and tracking_active *)
(* is true when the poll thread comes to test it for the first time (no    *)
(* stop having been requested)                                             *)
C24_InitialisedBeforeUse ==
    prog = "app" =>
        /\ (pc # "unstarted" \/ nreq > 0 \/ server \in {"starting", "serving"})
              => (mongo_collection # "None" /\ target_device # "None")
        /\ (pc \in {"interval", "fetch"} /\ fetches = 0 /\ stop.at = "")
              => tracking_active

C24_Witness ==
    /\ prog = "app"
    /\ pc = "update"
    /\ iteration = 1
    /\ nreq = 1
    /\ mongo_collection = "collection"
    /\ target_device = "device"

====
